---- MODULE Spec2Model ----
(***************************************************************************)
(* Model of src/inventory_system.py: an inventory (a Python dict from item *)
(* name to quantity) with add/remove/query operations, a JSON load/save    *)
(* pair and the fixed example run of main().                               *)
(*                                                                         *)
(* Python values handed to the functions are tagged records, so that the   *)
(* isinstance checks of the code are real tests.  Quantities are modelled  *)
(* on the integers.  A dict is the sequence of its entries in insertion    *)
(* order, which is the order Python iterates it in.                        *)
(***************************************************************************)
EXTENDS Integers, Sequences, FiniteSets

VARIABLES stock_data, logs, file, call, ret, exc, diag, pc, out, loaded, runs

vars == <<stock_data, logs, file, call, ret, exc, diag, pc, out, loaded, runs>>

----------------------------------------------------------------------------
(* Bounds of the model *)

\* largest absolute quantity an entry is driven to by the call harness
MaxQty == 2
\* longest log the call harness builds
MaxLog == 2
\* number of consecutive runs of main() on the same storage file
MaxRuns == 3

----------------------------------------------------------------------------
(* Python values *)

PyInt(n) == [t |-> "int", n |-> n, s |-> ""]
PyStr(s) == [t |-> "str", n |-> 0, s |-> s]
PyNone == [t |-> "NoneType", n |-> 0, s |-> ""]

\* isinstance(item, str)
IsStr(x) == x.t = "str"
\* isinstance(qty, (int, float))
IsNumber(x) == x.t \in {"int", "float"}

----------------------------------------------------------------------------
(* dict: a sequence of entries [k, v] with distinct keys, insertion order *)

EmptyDict == <<>>

\* item in stock_data
Contains(d, k) == \E i \in 1..Len(d) : d[i].k = k

\* stock_data.get(item, default)
DictGet(d, k, default) ==
    IF Contains(d, k)
    THEN d[CHOOSE i \in 1..Len(d) : d[i].k = k].v
    ELSE default

\* stock_data[item] = v : an existing key keeps its place, a new key goes last
DictSet(d, k, v) ==
    IF Contains(d, k)
    THEN [i \in 1..Len(d) |-> IF d[i].k = k THEN [k |-> k, v |-> v] ELSE d[i]]
    ELSE Append(d, [k |-> k, v |-> v])

\* del stock_data[item]
DictDel(d, k) == SelectSeq(d, LAMBDA e : e.k # k)

----------------------------------------------------------------------------
(* JSON text of a dict: json.dump writes the members in iteration order,   *)
(* each number as its decimal literal; json.load parses the literals back  *)
(* and inserts the members in the order read.  A literal is the sequence   *)
(* of its characters.                                                      *)

DigitChar == <<"0", "1", "2", "3", "4", "5", "6", "7", "8", "9">>

RECURSIVE Digits(_)
Digits(n) ==
    IF n < 10
    THEN <<DigitChar[n + 1]>>
    ELSE Append(Digits(n \div 10), DigitChar[(n % 10) + 1])

\* the decimal literal json.dump writes for the int n
NumLit(n) == IF n < 0 THEN <<"-">> \o Digits(-n) ELSE Digits(n)

DigitVal(c) == (CHOOSE i \in 1..10 : DigitChar[i] = c) - 1

RECURSIVE ParseDigits(_)
ParseDigits(s) ==
    IF Len(s) = 0
    THEN 0
    ELSE 10 * ParseDigits(SubSeq(s, 1, Len(s) - 1)) + DigitVal(s[Len(s)])

\* the int json.load reads from a decimal literal
ParseNum(s) == IF s[1] = "-" THEN -ParseDigits(Tail(s)) ELSE ParseDigits(s)

\* json.dump(data, f, indent=4): the members of the object written
json_dump(d) == [i \in 1..Len(d) |-> [name |-> d[i].k, lit |-> NumLit(d[i].v)]]

\* json.load(f): the dict built from the members read
RECURSIVE json_load(_)
json_load(text) ==
    IF Len(text) = 0
    THEN EmptyDict
    ELSE LET m == text[Len(text)]
         IN  DictSet(json_load(SubSeq(text, 1, Len(text) - 1)), m.name, ParseNum(m.lit))

\* the storage file: absent, present but not valid JSON, or a JSON object
AbsentFile == [kind |-> "absent", text |-> <<>>]
InvalidFile == [kind |-> "invalid", text |-> <<>>]
JsonFile(text) == [kind |-> "json", text |-> text]

----------------------------------------------------------------------------
(* The functions of inventory_system.py.  Each returns a record of what    *)
(* the call returns and what it leaves behind: diag is the level of the    *)
(* diagnostic it logs ("none" when it logs nothing), exc the exception     *)
(* that leaves the call ("none" when it returns normally).                 *)

\* f"{datetime.now()}: Added {qty} of {item}" : the quantity and item named
LogEntry(item, qty) == [qty |-> qty.n, item |-> item.s]

\* add_item storing qty in place of the sum
add_item_overwrite(sd, item, qty, lg) ==
    IF ~IsStr(item) \/ ~IsNumber(qty)
    THEN [stock |-> sd, logs |-> lg, diag |-> "WARNING", exc |-> "none"]
    ELSE [stock |-> DictSet(sd, item.s, qty.n),
          logs  |-> Append(lg, LogEntry(item, qty)),
          diag  |-> "none",
          exc   |-> "none"]

\* add_item rejecting only when both arguments are of the wrong type
add_item_and(sd, item, qty, lg) ==
    IF ~IsStr(item) /\ ~IsNumber(qty)
    THEN [stock |-> sd, logs |-> lg, diag |-> "WARNING", exc |-> "none"]
    ELSE [stock |-> DictSet(sd, item.s, DictGet(sd, item.s, 0) + qty.n),
          logs  |-> Append(lg, LogEntry(item, qty)),
          diag  |-> "none",
          exc   |-> "none"]

\* add_item putting the new entry at the front of the log
add_item_prepend(sd, item, qty, lg) ==
    IF ~IsStr(item) \/ ~IsNumber(qty)
    THEN [stock |-> sd, logs |-> lg, diag |-> "WARNING", exc |-> "none"]
    ELSE [stock |-> DictSet(sd, item.s, DictGet(sd, item.s, 0) + qty.n),
          logs  |-> <<LogEntry(item, qty)>> \o lg,
          diag  |-> "none",
          exc   |-> "none"]

\* Every caller passes logs, so lg is a list (the logs=None default, a fresh
\* list, is lg = <<>>).  logging.warning and the f-string raise nothing.
add_item(sd, item, qty, lg) ==
    IF ~IsStr(item) \/ ~IsNumber(qty)
    THEN [stock |-> sd, logs |-> lg, diag |-> "WARNING", exc |-> "none"]
    ELSE [stock |-> DictSet(sd, item.s, DictGet(sd, item.s, 0) + qty.n),
          logs  |-> Append(lg, LogEntry(item, qty)),
          diag  |-> "none",
          exc   |-> "none"]

\* remove_item deleting only below zero
remove_item_lt(sd, item, qty) ==
    IF ~IsStr(item) \/ ~Contains(sd, item.s)
    THEN [stock |-> sd, diag |-> "WARNING", exc |-> "none"]
    ELSE IF ~IsNumber(qty)
    THEN [stock |-> sd, diag |-> "none", exc |-> "TypeError"]
    ELSE LET new == DictGet(sd, item.s, 0) - qty.n
         IN  [stock |-> IF new < 0 THEN DictDel(sd, item.s)
                                   ELSE DictSet(sd, item.s, new),
              diag  |-> "none",
              exc   |-> "none"]

\* remove_item storing qty in place of the difference
remove_item_assign(sd, item, qty) ==
    IF ~IsStr(item) \/ ~Contains(sd, item.s)
    THEN [stock |-> sd, diag |-> "WARNING", exc |-> "none"]
    ELSE IF ~IsNumber(qty)
    THEN [stock |-> sd, diag |-> "none", exc |-> "TypeError"]
    ELSE LET new == qty.n
         IN  [stock |-> IF new <= 0 THEN DictDel(sd, item.s)
                                    ELSE DictSet(sd, item.s, new),
              diag  |-> "none",
              exc   |-> "none"]

\* stock_data[item] -= qty raises TypeError for a qty that is no number; the
\* except clauses name KeyError, OSError and ValueError only, so it leaves
\* the call, before anything is stored.  A name that is no text is hashable
\* here (an int, None) and is simply not in the dict.
remove_item(sd, item, qty) ==
    IF ~IsStr(item) \/ ~Contains(sd, item.s)
    THEN [stock |-> sd, diag |-> "WARNING", exc |-> "none"]
    ELSE IF ~IsNumber(qty)
    THEN [stock |-> sd, diag |-> "none", exc |-> "TypeError"]
    ELSE LET new == DictGet(sd, item.s, 0) - qty.n
         IN  [stock |-> IF new <= 0 THEN DictDel(sd, item.s)
                                    ELSE DictSet(sd, item.s, new),
              diag  |-> "none",
              exc   |-> "none"]

get_qty(sd, item) == IF IsStr(item) THEN DictGet(sd, item.s, 0) ELSE 0

\* load_data opening the file for writing, which creates or truncates it
load_data_truncates(f) ==
    [data |-> EmptyDict, diag |-> "ERROR", file |-> InvalidFile]

load_data(f) ==
    IF f.kind = "absent"
    THEN [data |-> EmptyDict, diag |-> "WARNING", file |-> f]
    ELSE IF f.kind = "invalid"
    THEN [data |-> EmptyDict, diag |-> "ERROR", file |-> f]
    ELSE [data |-> json_load(f.text), diag |-> "INFO", file |-> f]

\* save_data opening the file for appending
save_data_append(f, data, fault) ==
    IF fault = "open"
    THEN [file |-> f, diag |-> "ERROR"]
    ELSE IF fault = "write"
    THEN [file |-> InvalidFile, diag |-> "ERROR"]
    ELSE IF f.kind = "absent"
    THEN [file |-> JsonFile(json_dump(data)), diag |-> "INFO"]
    ELSE [file |-> InvalidFile, diag |-> "INFO"]

\* fault is what the file system does to this call: "none", "open" (open()
\* raises OSError, the file is not touched) or "write" (open() has truncated
\* the file and a write raises OSError: what is left is no JSON document).
save_data(f, data, fault) ==
    IF fault = "open"
    THEN [file |-> f, diag |-> "ERROR"]
    ELSE IF fault = "write"
    THEN [file |-> InvalidFile, diag |-> "ERROR"]
    ELSE [file |-> JsonFile(json_dump(data)), diag |-> "INFO"]

\* a line of standard output
Line(label, item, qty, names) ==
    [label |-> label, item |-> item, qty |-> qty, names |-> names]

print_data(sd) ==
    <<Line("Items Report:", "", 0, <<>>)>>
    \o [i \in 1..Len(sd) |-> Line("->", sd[i].k, sd[i].v, <<>>)]

\* default of check_low_items(stock_data, threshold=5)
DefaultThreshold == 5

\* check_low_items comparing with <=
RECURSIVE check_low_items_le(_, _)
check_low_items_le(sd, threshold) ==
    IF Len(sd) = 0
    THEN <<>>
    ELSE (IF Head(sd).v <= threshold THEN <<Head(sd).k>> ELSE <<>>)
         \o check_low_items_le(Tail(sd), threshold)

RECURSIVE check_low_items(_, _)
check_low_items(sd, threshold) ==
    IF Len(sd) = 0
    THEN <<>>
    ELSE (IF Head(sd).v < threshold THEN <<Head(sd).k>> ELSE <<>>)
         \o check_low_items(Tail(sd), threshold)

----------------------------------------------------------------------------
(* State.  stock_data, logs: the inventory and the log of the run.  file:  *)
(* the storage file.  call, ret, exc, diag: the last call made, what it    *)
(* returned, the exception that left it and the diagnostic it logged.      *)
(* pc, out: the statement main() is at and what it has printed.  loaded    *)
(* is a history variable, the inventory load_data returned to this run of  *)
(* main(), and runs counts the runs started.                               *)

Call(op, item, qty) == [op |-> op, item |-> item, qty |-> qty]
NoCall == Call("none", PyNone, PyNone)
Ret(num, names) == [num |-> num, names |-> names]
NoRet == Ret(0, <<>>)

\* arguments the call harness passes
Names == {"apple", "banana"}
ItemArgs == {PyStr(n) : n \in Names} \cup {PyInt(1), PyNone}
QtyArgs == {PyInt(-2), PyInt(0), PyInt(1), PyStr("3"), PyNone}
Thresholds == {0, 1, 2, DefaultThreshold}
Faults == {"none", "open", "write"}

InRange(d) == \A i \in 1..Len(d) : d[i].v >= -MaxQty /\ d[i].v <= MaxQty

Idle == pc = "idle" /\ UNCHANGED <<pc, out, loaded, runs>>

InitCommon ==
    /\ logs = <<>>
    /\ call = NoCall
    /\ ret = NoRet
    /\ exc = "none"
    /\ diag = "none"
    /\ out = <<>>
    /\ loaded = EmptyDict

(* Spec: any sequence of calls of the in-memory operations on one          *)
(* inventory and one log, from the empty inventory.                        *)

Init ==
    /\ InitCommon
    /\ stock_data = EmptyDict
    /\ file = AbsentFile
    /\ pc = "idle"
    /\ runs = 0

AddItem(item, qty) ==
    LET r == add_item(stock_data, item, qty, logs)
    IN  /\ Idle
        /\ InRange(r.stock)
        /\ Len(r.logs) <= MaxLog
        /\ stock_data' = r.stock
        /\ logs' = r.logs
        /\ call' = Call("add_item", item, qty)
        /\ ret' = NoRet
        /\ exc' = r.exc
        /\ diag' = r.diag
        /\ UNCHANGED file

RemoveItem(item, qty) ==
    LET r == remove_item(stock_data, item, qty)
    IN  /\ Idle
        /\ InRange(r.stock)
        /\ stock_data' = r.stock
        /\ call' = Call("remove_item", item, qty)
        /\ ret' = NoRet
        /\ exc' = r.exc
        /\ diag' = r.diag
        /\ UNCHANGED <<logs, file>>

GetQty(item) ==
    /\ Idle
    /\ call' = Call("get_qty", item, PyNone)
    /\ ret' = Ret(get_qty(stock_data, item), <<>>)
    /\ exc' = "none"
    /\ diag' = "none"
    /\ UNCHANGED <<stock_data, logs, file>>

CheckLowItems(threshold) ==
    /\ Idle
    /\ call' = Call("check_low_items", PyNone, PyInt(threshold))
    /\ ret' = Ret(0, check_low_items(stock_data, threshold))
    /\ exc' = "none"
    /\ diag' = "none"
    /\ UNCHANGED <<stock_data, logs, file>>

Next ==
    \/ \E item \in ItemArgs, qty \in QtyArgs : AddItem(item, qty)
    \/ \E item \in ItemArgs, qty \in QtyArgs : RemoveItem(item, qty)
    \/ \E item \in ItemArgs : GetQty(item)
    \/ \E threshold \in Thresholds : CheckLowItems(threshold)

Spec == Init /\ [][Next]_vars

----------------------------------------------------------------------------
(* SpecIO: any sequence of load_data and save_data calls on one storage    *)
(* file, from any inventory of at most MaxItems entries and a file that is *)
(* absent or no JSON document.                                             *)

MaxItems == 2
IONames == {"apple", "banana", "mango"}
IOQtys == {-12, 0, 7, 105}

Inventories ==
    {d \in UNION {[1..n -> [k : IONames, v : IOQtys]] : n \in 0..MaxItems} :
        \A i, j \in 1..Len(d) : d[i].k = d[j].k => i = j}

InitIO ==
    /\ InitCommon
    /\ stock_data \in Inventories
    /\ file \in {AbsentFile, InvalidFile}
    /\ pc = "idle"
    /\ runs = 0

LoadData ==
    LET r == load_data(file)
    IN  /\ Idle
        /\ stock_data' = r.data
        /\ file' = r.file
        /\ call' = Call("load_data", PyNone, PyNone)
        /\ ret' = NoRet
        /\ exc' = "none"
        /\ diag' = r.diag
        /\ UNCHANGED logs

SaveData(fault) ==
    LET r == save_data(file, stock_data, fault)
    IN  /\ Idle
        /\ file' = r.file
        /\ call' = Call("save_data", PyNone, PyNone)
        /\ ret' = NoRet
        /\ exc' = "none"
        /\ diag' = r.diag
        /\ UNCHANGED <<stock_data, logs>>

NextIO ==
    \/ LoadData
    \/ \E fault \in Faults : SaveData(fault)

SpecIO == InitIO /\ [][NextIO]_vars

----------------------------------------------------------------------------
(* SpecMain: main(), statement by statement, run up to MaxRuns times in a  *)
(* row on the same storage file.                                           *)

InitMain ==
    /\ InitCommon
    /\ stock_data = EmptyDict
    /\ file \in {AbsentFile, InvalidFile}
    /\ pc = "load"
    /\ runs = 1

\* stock_data = load_data()
MainLoad ==
    LET r == load_data(file)
    IN  /\ pc = "load"
        /\ stock_data' = r.data
        /\ loaded' = r.data
        /\ file' = r.file
        /\ diag' = r.diag
        /\ pc' = "logs"
        /\ UNCHANGED <<logs, call, ret, exc, out, runs>>

\* logs = []
MainLogs ==
    /\ pc = "logs"
    /\ logs' = <<>>
    /\ pc' = "add_apple"
    /\ UNCHANGED <<stock_data, file, call, ret, exc, diag, out, loaded, runs>>

\* stock_data, logs = add_item(stock_data, item, qty, logs)
MainAdd(at, item, qty, then) ==
    LET r == add_item(stock_data, PyStr(item), PyInt(qty), logs)
    IN  /\ pc = at
        /\ stock_data' = r.stock
        /\ logs' = r.logs
        /\ diag' = r.diag
        /\ exc' = r.exc
        /\ pc' = IF r.exc = "none" THEN then ELSE "crashed"
        /\ UNCHANGED <<file, call, ret, out, loaded, runs>>

\* stock_data = remove_item(stock_data, item, qty)
MainRemove(at, item, qty, then) ==
    LET r == remove_item(stock_data, PyStr(item), PyInt(qty))
    IN  /\ pc = at
        /\ stock_data' = r.stock
        /\ diag' = r.diag
        /\ exc' = r.exc
        /\ pc' = IF r.exc = "none" THEN then ELSE "crashed"
        /\ UNCHANGED <<logs, file, call, ret, out, loaded, runs>>

MainAddApple == MainAdd("add_apple", "apple", 10, "add_banana")
MainAddBanana == MainAdd("add_banana", "banana", -2, "add_mango")
MainAddMango == MainAdd("add_mango", "mango", 5, "remove_apple")
MainRemoveApple == MainRemove("remove_apple", "apple", 3, "remove_orange")
MainRemoveOrange == MainRemove("remove_orange", "orange", 1, "print_apple")

\* print(f"Apple stock: {get_qty(stock_data, 'apple')}")
MainPrintApple ==
    /\ pc = "print_apple"
    /\ out' = Append(out, Line("Apple stock:", "apple",
                               get_qty(stock_data, PyStr("apple")), <<>>))
    /\ pc' = "print_low"
    /\ UNCHANGED <<stock_data, logs, file, call, ret, exc, diag, loaded, runs>>

\* print(f"Low items: {check_low_items(stock_data)}")
MainPrintLow ==
    /\ pc = "print_low"
    /\ out' = Append(out, Line("Low items:", "", 0,
                               check_low_items(stock_data, DefaultThreshold)))
    /\ pc' = "save"
    /\ UNCHANGED <<stock_data, logs, file, call, ret, exc, diag, loaded, runs>>

\* save_data(data=stock_data)
MainSave(fault) ==
    LET r == save_data(file, stock_data, fault)
    IN  /\ pc = "save"
        /\ file' = r.file
        /\ diag' = r.diag
        /\ pc' = "report"
        /\ UNCHANGED <<stock_data, logs, call, ret, exc, out, loaded, runs>>

\* print_data(stock_data)
MainReport ==
    /\ pc = "report"
    /\ out' = out \o print_data(stock_data)
    /\ pc' = "finish"
    /\ UNCHANGED <<stock_data, logs, file, call, ret, exc, diag, loaded, runs>>

\* logging.info("Program finished successfully.")
MainFinish ==
    /\ pc = "finish"
    /\ diag' = "INFO"
    /\ pc' = "done"
    /\ UNCHANGED <<stock_data, logs, file, call, ret, exc, out, loaded, runs>>

\* the program is started again: a new process, the same storage file
NextRun ==
    /\ pc = "done"
    /\ runs < MaxRuns
    /\ runs' = runs + 1
    /\ pc' = "load"
    /\ stock_data' = EmptyDict
    /\ logs' = <<>>
    /\ out' = <<>>
    /\ loaded' = EmptyDict
    /\ diag' = "none"
    /\ UNCHANGED <<file, call, ret, exc>>

NextMain ==
    \/ MainLoad
    \/ MainLogs
    \/ MainAddApple
    \/ MainAddBanana
    \/ MainAddMango
    \/ MainRemoveApple
    \/ MainRemoveOrange
    \/ MainPrintApple
    \/ MainPrintLow
    \/ \E fault \in Faults : MainSave(fault)
    \/ MainReport
    \/ MainFinish
    \/ NextRun

SpecMain == InitMain /\ [][NextMain]_vars

----------------------------------------------------------------------------
(* Properties *)

Keys(d) == {d[i].k : i \in 1..Len(d)}
IndexOf(d, k) == CHOOSE i \in 1..Len(d) : d[i].k = k

\* Python's == on two dicts: the same names, the same quantity for each
DictEq(a, b) ==
    /\ Keys(a) = Keys(b)
    /\ \A k \in Keys(a) : DictGet(a, k, 0) = DictGet(b, k, 0)

ValidAdd(c) == c.op = "add_item" /\ c.item.t = "str" /\ c.qty.t = "int"
RejectedAdd(c) == c.op = "add_item" /\ (c.item.t # "str" \/ c.qty.t # "int")

\* C1 (Spec): in every state reached by add_item and remove_item calls from
\* the empty inventory, no entry of the inventory has a quantity <= 0.
C1_NoEntryAtOrBelowZero ==
    \A i \in 1..Len(stock_data) : stock_data[i].v > 0

\* C2 (Spec): after add_item with a text name and a numeric qty (zero and
\* negative included, name present before or not), get_qty of the name is
\* its get_qty before the call plus qty, and the name is present.
C2_AddThenGet ==
    [][ValidAdd(call') =>
            /\ get_qty(stock_data', call'.item)
                   = get_qty(stock_data, call'.item) + call'.qty.n
            /\ Contains(stock_data', call'.item.s)]_vars

\* a negative quantity has been added to a name that was present with
\* quantity 1, and the name stays present with quantity -1
C2_Witness ==
    /\ ValidAdd(call)
    /\ call.qty.n < 0
    /\ call.item.s \in Keys(stock_data)
    /\ DictGet(stock_data, call.item.s, 0) = -1
    /\ Len(logs) = 2

\* C3 (Spec): remove_item with a numeric qty returns the inventory unchanged
\* when the name is absent, leaves the name absent when the stored quantity
\* minus qty is <= 0, and maps the name to the difference when it is > 0;
\* every other entry is unchanged in all three cases.
C3_Remove ==
    [][(call'.op = "remove_item" /\ call'.qty.t = "int") =>
        LET name    == call'.item.s
            present == call'.item.t = "str" /\ name \in Keys(stock_data)
            diff    == DictGet(stock_data, name, 0) - call'.qty.n
        IN  /\ ~present => stock_data' = stock_data
            /\ (present /\ diff <= 0) => name \notin Keys(stock_data')
            /\ (present /\ diff > 0) =>
                   name \in Keys(stock_data') /\ DictGet(stock_data', name, 0) = diff
            /\ Keys(stock_data') \subseteq Keys(stock_data)
            /\ \A k \in Keys(stock_data) \ {name} :
                   /\ k \in Keys(stock_data')
                   /\ DictGet(stock_data', k, 0) = DictGet(stock_data, k, 0)]_vars

\* a removal of a present name has deleted it and left the other entry
C3_Witness ==
    /\ call.op = "remove_item"
    /\ call.item.t = "str"
    /\ call.qty.t = "int"
    /\ diag = "none"
    /\ call.item.s \notin Keys(stock_data)
    /\ Len(stock_data) = 1

\* C4 (Spec): add_item with a name that is no text or a quantity that is no
\* number does not raise and leaves the inventory and the log as they were.
C4_RejectedAdd ==
    [][RejectedAdd(call') =>
            /\ exc' = "none"
            /\ stock_data' = stock_data
            /\ logs' = logs]_vars

\* an add has been rejected on an inventory and a log that hold entries
C4_Witness ==
    /\ RejectedAdd(call)
    /\ diag = "WARNING"
    /\ Len(stock_data) = 2
    /\ Len(logs) = 2

\* C7 (Spec): remove_item never propagates a fault, whatever the inventory,
\* the name and the qty (a qty that is no number, on a present name,
\* included): no exception leaves the call.
C7_RemoveNeverRaises ==
    call.op = "remove_item" => exc = "none"

\* C9 (Spec): check_low_items returns exactly the names whose quantity is
\* strictly less than the threshold, each once, in the inventory's iteration
\* order, and does not modify the inventory.
C9_LowItems ==
    [][call'.op = "check_low_items" =>
        LET r  == ret'.names
            th == call'.qty.n
        IN  /\ stock_data' = stock_data
            /\ {r[i] : i \in 1..Len(r)}
                   = {stock_data[j].k : j \in {j \in 1..Len(stock_data) : stock_data[j].v < th}}
            /\ \A i, j \in 1..Len(r) : r[i] = r[j] => i = j
            /\ \A i, j \in 1..Len(r) :
                   i < j => IndexOf(stock_data, r[i]) < IndexOf(stock_data, r[j])]_vars

\* check_low_items has left out a first entry whose quantity equals the
\* threshold and returned a second one whose quantity is negative
C9_Witness ==
    /\ call.op = "check_low_items"
    /\ Len(stock_data) = 2
    /\ stock_data[1].v = call.qty.n
    /\ stock_data[2].v < 0
    /\ ret.names = <<stock_data[2].k>>

\* C10 (Spec): the log is append-only: an accepted add_item appends exactly
\* one entry at the end, naming the call's quantity and item, and every
\* other call (a rejected add_item, remove_item, get_qty, check_low_items)
\* leaves the log unchanged.
C10_LogAppendOnly ==
    [][IF ValidAdd(call')
       THEN logs' = Append(logs, [qty |-> call'.qty.n, item |-> call'.item.s])
       ELSE logs' = logs]_vars

\* a second, different entry has been appended after the first
C10_Witness ==
    /\ ValidAdd(call)
    /\ Len(logs) = 2
    /\ logs[1] # logs[2]
    /\ logs[2] = [qty |-> call.qty.n, item |-> call.item.s]

\* the inventory after k runs of main() that each loaded what the run
\* before saved, the first from nothing
AfterRuns(k) ==
    IF k = 0
    THEN EmptyDict
    ELSE <<[k |-> "apple", v |-> 7 * k],
           [k |-> "banana", v |-> -2 * k],
           [k |-> "mango", v |-> 5 * k]>>

\* C5 (SpecMain), as claimed: every run of main(), the first on absent
\* storage and each later one on the file the run before saved, ends with
\* the inventory {apple: 7, banana: -2, mango: 5}, having printed apple
\* stock 7 and low items [banana].
C5_EveryRunEndsTheSame ==
    pc = "done" =>
        /\ stock_data = AfterRuns(1)
        /\ out[1] = Line("Apple stock:", "apple", 7, <<>>)
        /\ out[2] = Line("Low items:", "", 0, <<"banana">>)

\* C5 (SpecMain), amended: a run of main() that loads nothing (storage
\* absent or no JSON) ends with {apple: 7, banana: -2, mango: 5}, apple
\* stock 7 and low items [banana]; a run that loads what k runs before it
\* built up ends with {apple: 7(k+1), banana: -2(k+1), mango: 5(k+1)},
\* apple stock 7(k+1) and low items [banana].
C5_RunsAccumulate ==
    pc = "done" =>
        \E k \in 0..MaxRuns :
            /\ loaded = AfterRuns(k)
            /\ stock_data = AfterRuns(k + 1)
            /\ out[1] = Line("Apple stock:", "apple", 7 * (k + 1), <<>>)
            /\ out[2] = Line("Low items:", "", 0, <<"banana">>)

\* a second run has ended that loaded the file the first run saved
C5_Witness ==
    /\ pc = "done"
    /\ runs = 2
    /\ loaded = AfterRuns(1)
    /\ stock_data = AfterRuns(2)
    /\ file = JsonFile(json_dump(AfterRuns(2)))

\* C6 (SpecIO): round trip: load_data of the path right after save_data
\* has written an inventory to it (the write went through: save_data logged
\* at INFO level) returns an inventory equal to the one saved: the same
\* names, the same quantity for each.
C6_RoundTrip ==
    [][(call.op = "save_data" /\ diag = "INFO" /\ call'.op = "load_data") =>
            DictEq(stock_data', stock_data)]_vars

\* a two-entry inventory with a negative and a three-digit quantity has
\* been loaded back from the file it was saved to
C6_Witness ==
    /\ call.op = "load_data"
    /\ diag = "INFO"
    /\ file = JsonFile(json_dump(stock_data))
    /\ Len(stock_data) = 2
    /\ stock_data[1].v = -12
    /\ stock_data[2].v = 105

====
